---- MODULE Spec2Model ----
(***************************************************************************)
(* Model of tariff_cpi_app.py, the Streamlit "Tariff Bubble Simulator".    *)
(*                                                                         *)
(* The script is re-executed top to bottom on every widget interaction.    *)
(* The state kept between two executions is the widget state (slider,      *)
(* uploader), the two st.cache_data caches, and the files on disk; the     *)
(* remaining variables record what the last execution displayed.           *)
(*                                                                         *)
(* Numbers: the script computes in IEEE doubles.  The model computes in    *)
(* exact rational arithmetic on finite values (a number is a record        *)
(* [n, d] in lowest terms with d > 0); NaN appears only where pandas       *)
(* produces it from finite data (max / mean of a column with no rows) and  *)
(* is carried as the flag `nan`.  Rounding, overflow and infinite cells    *)
(* are outside the model.                                                  *)
(*                                                                         *)
(* Not modelled: the text of labels and hover templates, the layout of     *)
(* the figure, and color_map (the script never reads it).  A widget keeps  *)
(* its value while the script does not draw it.                            *)
(***************************************************************************)
EXTENDS Integers, Sequences, FiniteSets

VARIABLES
    files,          \* 1..3 -> <<>> | <<content>> : the three candidate paths on disk
    uploaded,       \* <<>> | <<[name, content]>> : state of the file_uploader widget
    path_cache,     \* 1..3 -> <<>> | <<table>>   : st.cache_data of read_csv_from_path
    bytes_cache,    \* set of [key, value]        : st.cache_data of read_csv_from_bytes
    tariff_change,  \* state of the slider widget
    outcome,        \* how the last execution ended
    used,           \* which return statement of load_sensitivity_data was taken
    parsed,         \* whether the last execution called pd.read_csv
    seen,           \* <<>> | <<content>> : the bytes its source held at that execution
    data_source,    \* caption of the last execution
    raw,            \* <<>> | <<table>> : the table the last execution loaded
    missing,        \* the columns named by st.error
    df,             \* the data frame after bubble sizes were computed
    markers,        \* the traces added to the figure
    headline,       \* the st.success sentence
    table           \* the st.dataframe summary

vars == <<files, uploaded, path_cache, bytes_cache, tariff_change, outcome, used,
          parsed, seen, data_source, raw, missing, df, markers, headline, table>>

----------------------------------------------------------------------------
(* Exact rational arithmetic standing for the script's float arithmetic.   *)

RECURSIVE Gcd(_, _)
Gcd(a, b) == IF b = 0 THEN a ELSE Gcd(b, a % b)

AbsInt(k) == IF k < 0 THEN -k ELSE k

Rat(n, d) ==
    LET g == Gcd(AbsInt(n), AbsInt(d))
        s == IF d < 0 THEN -1 ELSE 1
    IN  [n |-> s * (n \div g), d |-> s * (d \div g)]

Int2Rat(k) == [n |-> k, d |-> 1]

RMul(a, b) == Rat(a.n * b.n, a.d * b.d)
RDiv(a, b) == Rat(a.n * b.d, a.d * b.n)
RAdd(a, b) == Rat(a.n * b.d + b.n * a.d, a.d * b.d)
RLt(a, b) == a.n * b.d < b.n * a.d
RGt(a, b) == RLt(b, a)
RAbs(a) == [n |-> AbsInt(a.n), d |-> a.d]
RMax(a, b) == IF RLt(a, b) THEN b ELSE a
RClip(a, lo, hi) == IF RLt(a, lo) THEN lo ELSE IF RGt(a, hi) THEN hi ELSE a

Zero == Int2Rat(0)
One == Int2Rat(1)

\* A float that may be NaN (the result of max() or mean() over no rows).
Finite(r) == [nan |-> FALSE, v |-> r]
NaN == [nan |-> TRUE, v |-> Zero]

----------------------------------------------------------------------------
(* CSV contents, tables and cells.                                         *)

\* A cell of a parsed CSV: its text and, when the text is a number, its value.
NumCell(n, d) == [num |-> TRUE, v |-> Rat(n, d), s |-> "number"]
TextCell(s) == [num |-> FALSE, v |-> Zero, s |-> s]

Table(columns, rows) == [columns |-> columns, rows |-> rows]

\* The bytes of a file or an upload: either empty (pd.read_csv raises
\* EmptyDataError on them) or the CSV text of a table.
EmptyBytes == [empty |-> TRUE, columns |-> <<>>, rows |-> <<>>]
CsvBytes(columns, rows) == [empty |-> FALSE, columns |-> columns, rows |-> rows]

\* pd.read_csv: raises on bytes that hold no columns, else yields the table.
ReadCsvRaises(content) == content.empty
ReadCsv(content) == Table(content.columns, content.rows)

----------------------------------------------------------------------------
(* load_sensitivity_data and the two cached readers.                       *)

CandidatePaths == 1 .. 3

\* str(path.relative_to(BASE_DIR)) of the three candidate paths, in order.  A
\* data-source label is a sequence of its parts; <<>> when none was returned.
CandidateLabel(i) ==
    CASE i = 1 -> <<"results/tariff_sensitivity_comparison.csv">>
      [] i = 2 -> <<"tariff_sensitivity_comparison.csv">>
      [] i = 3 -> <<"figures/tariff_sensitivity_comparison.csv">>

UsedPath(i) == CASE i = 1 -> "path1" [] i = 2 -> "path2" [] i = 3 -> "path3"

NeededCols == <<"Category", "Pre-Model Correlation", "Post-Model Importance (RF)">>

DemoTable ==
    Table(NeededCols,
          << <<TextCell("Transportation"), NumCell(12, 100), NumCell(28, 100)>>,
             <<TextCell("Food"), NumCell(8, 100), NumCell(21, 100)>>,
             <<TextCell("Housing"), NumCell(3, 100), NumCell(18, 100)>>,
             <<TextCell("Apparel"), NumCell(10, 100), NumCell(14, 100)>>,
             <<TextCell("Medical"), NumCell(2, 100), NumCell(8, 100)>>,
             <<TextCell("All Other Services Goods"), NumCell(6, 100), NumCell(11, 100)>> >>)

Loaded(t, label, u, p, pc, bc) ==
    [raised |-> FALSE, raw |-> <<t>>, data_source |-> label, used |-> u,
     parsed |-> p, path_cache |-> pc, bytes_cache |-> bc]

Raised(u, pc, bc) ==
    [raised |-> TRUE, raw |-> <<>>, data_source |-> <<>>, used |-> u,
     parsed |-> TRUE, path_cache |-> pc, bytes_cache |-> bc]

\* @st.cache_data read_csv_from_path(path_str): the cache key is the path
\* string; on a miss the file's current content is parsed and stored.
read_csv_from_path(i, fs, pc, bc) ==
    IF pc[i] # <<>>
    THEN Loaded(pc[i][1], CandidateLabel(i), UsedPath(i), FALSE, pc, bc)
    ELSE IF ReadCsvRaises(fs[i][1])
         THEN Raised(UsedPath(i), pc, bc)
         ELSE Loaded(ReadCsv(fs[i][1]), CandidateLabel(i), UsedPath(i), TRUE,
                     [pc EXCEPT ![i] = <<ReadCsv(fs[i][1])>>], bc)

UploadLabel(name) == <<"uploaded CSV", name>>

\* @st.cache_data read_csv_from_bytes(file_bytes): the cache key is the bytes.
read_csv_from_bytes(up, pc, bc) ==
    IF \E e \in bc : e.key = up.content
    THEN Loaded((CHOOSE e \in bc : e.key = up.content).value, UploadLabel(up.name),
                "upload", FALSE, pc, bc)
    ELSE IF ReadCsvRaises(up.content)
         THEN Raised("upload", pc, bc)
         ELSE Loaded(ReadCsv(up.content), UploadLabel(up.name), "upload", TRUE, pc,
                     bc \cup {[key |-> up.content, value |-> ReadCsv(up.content)]})

PathExists(fs, i) == fs[i] # <<>>

\* load_sensitivity_data asking for the upload before it looks for the files.
load_sensitivity_data_upload_first(fs, up, pc, bc) ==
    IF up # <<>>
    THEN read_csv_from_bytes(up[1], pc, bc)
    ELSE IF \E i \in CandidatePaths : PathExists(fs, i)
         THEN LET i == CHOOSE k \in CandidatePaths :
                           PathExists(fs, k) /\ \A j \in 1 .. k - 1 : ~PathExists(fs, j)
              IN  read_csv_from_path(i, fs, pc, bc)
         ELSE Loaded(DemoTable, <<"built-in demo dataset">>, "demo", FALSE, pc, bc)

load_sensitivity_data(fs, up, pc, bc) ==
    IF \E i \in CandidatePaths : PathExists(fs, i)
    THEN LET i == CHOOSE k \in CandidatePaths :
                      PathExists(fs, k) /\ \A j \in 1 .. k - 1 : ~PathExists(fs, j)
         IN  read_csv_from_path(i, fs, pc, bc)
    ELSE IF up # <<>>
         THEN read_csv_from_bytes(up[1], pc, bc)
         ELSE Loaded(DemoTable, <<"built-in demo dataset">>, "demo", FALSE, pc, bc)

----------------------------------------------------------------------------
(* Column normalisation, validation and coercion (lines 72-84).            *)

\* The column names drawn by the model that start with "Unnamed".
StartsWithUnnamed(c) == c \in {"Unnamed: 0"}

RenameFirst(t) ==
    IF StartsWithUnnamed(t.columns[1]) \/ t.columns[1] = ""
    THEN Table([k \in 1 .. Len(t.columns) |->
                   IF t.columns[k] = t.columns[1] THEN "Category" ELSE t.columns[k]],
               t.rows)
    ELSE t

HasColumn(t, c) == \E k \in 1 .. Len(t.columns) : t.columns[k] = c

\* Missing that reports only the first column it misses.
MissingFirstOnly(t) ==
    IF SelectSeq(NeededCols, LAMBDA c : ~HasColumn(t, c)) = <<>> THEN <<>>
    ELSE <<Head(SelectSeq(NeededCols, LAMBDA c : ~HasColumn(t, c)))>>

Missing(t) == SelectSeq(NeededCols, LAMBDA c : ~HasColumn(t, c))

ColumnIndex(t, c) ==
    CHOOSE k \in 1 .. Len(t.columns) :
        t.columns[k] = c /\ \A j \in 1 .. k - 1 : t.columns[j] # c

\* pd.to_numeric(errors="coerce").fillna(0.0)
ToNumeric(cell) == IF cell.num THEN cell.v ELSE Zero

\* astype(str)
AsStr(cell) == cell.s

Coerced(t) ==
    LET cat == ColumnIndex(t, NeededCols[1])
        corr == ColumnIndex(t, NeededCols[2])
        imp == ColumnIndex(t, NeededCols[3])
        Row(r) == [category |-> AsStr(r[cat]),
                   correlation |-> ToNumeric(r[corr]),
                   importance |-> ToNumeric(r[imp])]
    IN  [k \in 1 .. Len(t.rows) |-> Row(t.rows[k])]

----------------------------------------------------------------------------
(* Static lookup tables (lines 86-121).                                    *)

\* emoji_map.get(category, blue circle); glyphs are named, not drawn.
emoji_map(c) ==
    CASE c = "Transportation" -> "car"
      [] c = "Food" -> "apple"
      [] c = "Housing" -> "house"
      [] c = "Apparel" -> "shirt"
      [] c = "Medical" -> "hospital"
      [] c = "All Other Services Goods" -> "toolbox"
      [] OTHER -> "blue circle"

display_name_map(c) == IF c = "All Other Services Goods" THEN "Services" ELSE c

direction_color_map(d) ==
    CASE d = "positive" -> "#2ca02c"
      [] d = "negative" -> "#d62728"
      [] d = "neutral" -> "#7f7f7f"

positions(c) ==
    CASE c = "Food" -> <<Rat(0, 1), Rat(1, 1)>>
      [] c = "Apparel" -> <<Rat(1, 1), Rat(1, 1)>>
      [] c = "Transportation" -> <<Rat(2, 1), Rat(1, 1)>>
      [] c = "Housing" -> <<Rat(3, 10), Rat(0, 1)>>
      [] c = "Medical" -> <<Rat(13, 10), Rat(0, 1)>>
      [] c = "All Other Services Goods" -> <<Rat(23, 10), Rat(0, 1)>>
      [] OTHER -> <<Rat(0, 1), Rat(0, 1)>>

----------------------------------------------------------------------------
(* Impact calculator (lines 123-147).                                      *)

SliderMin == -10
SliderMax == 10
SliderDefault == 2

\* min_value, max_value and step = 0.5 of the slider.
SliderValues == {Rat(2 * SliderMin + k, 2) : k \in 0 .. 2 * (SliderMax - SliderMin)}

neutral_threshold == Rat(2, 100)

\* Sign with the band closed at the threshold (<= for <).
SignClosedBand(correlation) ==
    IF ~RGt(RAbs(correlation), neutral_threshold) THEN Zero
    ELSE IF RGt(correlation, Zero) THEN One
    ELSE IF RLt(correlation, Zero) THEN Int2Rat(-1)
    ELSE Zero

\* np.sign(...) with the neutral band set to 0.0
Sign(correlation) ==
    IF RLt(RAbs(correlation), neutral_threshold) THEN Zero
    ELSE IF RGt(correlation, Zero) THEN One
    ELSE IF RLt(correlation, Zero) THEN Int2Rat(-1)
    ELSE Zero

EstimatedChange(tc, row) == RMul(RMul(tc, row.importance), Sign(row.correlation))

WithImpact(rows, tc) ==
    LET Row(r) == [category |-> r.category,
                   correlation |-> r.correlation,
                   importance |-> r.importance,
                   estimated |-> EstimatedChange(tc, r),
                   abs_impact |-> RAbs(EstimatedChange(tc, r))]
    IN  [k \in 1 .. Len(rows) |-> Row(rows[k])]

\* max(abs(-10.0), abs(10.0))
max_tariff_magnitude == RMax(RAbs(Int2Rat(-10)), RAbs(Int2Rat(10)))

RECURSIVE MaxFrom(_, _, _)
MaxFrom(rows, k, best) ==
    IF k > Len(rows) THEN best
    ELSE MaxFrom(rows, k + 1, RMax(best, rows[k].importance))

\* Series.max(): NaN for a column with no rows.
max_sensitivity(rows) ==
    IF Len(rows) = 0 THEN NaN ELSE Finite(MaxFrom(rows, 2, rows[1].importance))

\* max_possible_impact without the tariff magnitude.
max_possible_impact_unscaled(rows) == max_sensitivity(rows)

\* max_tariff_magnitude * max_sensitivity
max_possible_impact(rows) ==
    LET m == max_sensitivity(rows)
    IN  IF m.nan THEN NaN ELSE Finite(RMul(max_tariff_magnitude, m.v))

BubbleOffset == 40
BubbleSpan == 120

\* BubbleSize without .clip(0.0, 1.0).
BubbleSizeUnclipped(row, mpi) ==
    IF ~mpi.nan /\ RGt(mpi.v, Zero)
    THEN RAdd(Int2Rat(BubbleOffset),
              RMul(RDiv(row.abs_impact, mpi.v), Int2Rat(BubbleSpan)))
    ELSE Int2Rat(BubbleOffset)

BubbleSize(row, mpi) ==
    IF ~mpi.nan /\ RGt(mpi.v, Zero)
    THEN RAdd(Int2Rat(BubbleOffset),
              RMul(RClip(RDiv(row.abs_impact, mpi.v), Zero, One), Int2Rat(BubbleSpan)))
    ELSE Int2Rat(BubbleOffset)

WithBubbles(rows) ==
    LET mpi == max_possible_impact(rows)
        Row(r) == [category |-> r.category,
                   correlation |-> r.correlation,
                   importance |-> r.importance,
                   estimated |-> r.estimated,
                   abs_impact |-> r.abs_impact,
                   bubble_size |-> BubbleSize(r, mpi)]
    IN  [k \in 1 .. Len(rows) |-> Row(rows[k])]

\* df after line 147, from the validated table and the slider value.
ImpactFrame(t, tc) == WithBubbles(WithImpact(Coerced(t), tc))

----------------------------------------------------------------------------
(* Renderer (lines 149-214).                                               *)

Direction(row) ==
    IF RGt(row.estimated, Zero) THEN "positive"
    ELSE IF RLt(row.estimated, Zero) THEN "negative"
    ELSE "neutral"

\* One go.Scatter trace per row of df.iterrows().
Marker(row) ==
    [category |-> row.category,
     x |-> positions(row.category)[1],
     y |-> positions(row.category)[2],
     display_name |-> display_name_map(row.category),
     emoji |-> emoji_map(row.category),
     color |-> direction_color_map(Direction(row)),
     size |-> row.bubble_size,
     value |-> row.estimated]

\* Markers that draws no trace for a row whose estimate is 0.
MarkersSkipNeutral(rows) ==
    LET kept == SelectSeq(rows, LAMBDA r : r.estimated.n # 0)
    IN  [k \in 1 .. Len(kept) |-> Marker(kept[k])]

Markers(rows) == [k \in 1 .. Len(rows) |-> Marker(rows[k])]

RECURSIVE SumFrom(_, _)
SumFrom(rows, k) ==
    IF k > Len(rows) THEN Zero ELSE RAdd(rows[k].estimated, SumFrom(rows, k + 1))

\* Series.mean(): NaN for a column with no rows.
avg_effect(rows) ==
    IF Len(rows) = 0 THEN NaN ELSE Finite(RDiv(SumFrom(rows, 1), Int2Rat(Len(rows))))

\* Headline with >= for > in the first test.
HeadlineNonStrict(avg) ==
    IF ~avg.nan /\ ~RLt(avg.v, Zero) THEN "price pressure up"
    ELSE IF ~avg.nan /\ RLt(avg.v, Zero) THEN "price pressure down"
    ELSE "neutral"

Headline(avg) ==
    IF ~avg.nan /\ RGt(avg.v, Zero) THEN "price pressure up"
    ELSE IF ~avg.nan /\ RLt(avg.v, Zero) THEN "price pressure down"
    ELSE "neutral"

TableRow(row) ==
    [category |-> <<emoji_map(row.category), display_name_map(row.category)>>,
     estimated |-> row.estimated,
     importance |-> row.importance]

\* sort_values("Estimated CPI change (pp)", ascending=False); rows that tie keep
\* their order.
RECURSIVE InsertDesc(_, _)
InsertDesc(sorted, r) ==
    IF sorted = <<>> THEN <<r>>
    ELSE IF RLt(Head(sorted).estimated, r.estimated) THEN <<r>> \o sorted
    ELSE <<Head(sorted)>> \o InsertDesc(Tail(sorted), r)

RECURSIVE SortDesc(_, _)
SortDesc(rows, k) ==
    IF k = 0 THEN <<>> ELSE InsertDesc(SortDesc(rows, k - 1), rows[k])

SummaryTable(rows) ==
    SortDesc([k \in 1 .. Len(rows) |-> TableRow(rows[k])], Len(rows))

----------------------------------------------------------------------------
(* One execution of the script, top to bottom.                             *)

\* The bytes the source of this execution holds.
SourceBytes(fs, up, u) ==
    CASE u = "path1" -> fs[1]
      [] u = "path2" -> fs[2]
      [] u = "path3" -> fs[3]
      [] u = "upload" -> <<up[1].content>>
      [] u = "demo" -> <<>>

Execute(up, tc) ==
    \E l \in {load_sensitivity_data(files, up, path_cache, bytes_cache)} :
        /\ path_cache' = l.path_cache
        /\ bytes_cache' = l.bytes_cache
        /\ used' = l.used
        /\ parsed' = l.parsed
        /\ seen' = SourceBytes(files, up, l.used)
        /\ data_source' = l.data_source
        /\ IF l.raised
           THEN \* pd.read_csv raised: the execution ends with the traceback
                /\ outcome' = "exception"
                /\ raw' = <<>>
                /\ missing' = <<>>
                /\ df' = <<>>
                /\ markers' = <<>>
                /\ headline' = ""
                /\ table' = <<>>
           ELSE \E t \in {RenameFirst(l.raw[1])} :
                    /\ raw' = <<t>>
                    /\ missing' = Missing(t)
                    /\ IF Missing(t) # <<>>
                       THEN \* st.error; st.stop()
                            /\ outcome' = "halted"
                            /\ df' = <<>>
                            /\ markers' = <<>>
                            /\ headline' = ""
                            /\ table' = <<>>
                       ELSE \E frame \in {ImpactFrame(t, tc)} :
                                /\ outcome' = "rendered"
                                /\ df' = frame
                                /\ markers' = Markers(frame)
                                /\ headline' = Headline(avg_effect(frame))
                                /\ table' = SummaryTable(frame)

\* The first execution of a session, or a rerun the user asks for.
Rerun ==
    /\ Execute(uploaded, tariff_change)
    /\ UNCHANGED <<files, uploaded, tariff_change>>

\* MoveSlider whose execution still reads the slider's earlier value.
MoveSliderStale ==
    /\ outcome = "rendered"
    /\ \E tc \in SliderValues :
          /\ tc # tariff_change
          /\ tariff_change' = tc
          /\ Execute(uploaded, tariff_change)
    /\ UNCHANGED <<files, uploaded>>

\* The slider is drawn only by an execution that passed validation.
MoveSlider ==
    /\ outcome = "rendered"
    /\ \E tc \in SliderValues :
          /\ tc # tariff_change
          /\ tariff_change' = tc
          /\ Execute(uploaded, tc)
    /\ UNCHANGED <<files, uploaded>>

\* The uploader is drawn only by an execution that found no candidate path.
UploaderShown == outcome # "none" /\ used \in {"upload", "demo"}

UploadFrom(names, contents) ==
    /\ UploaderShown
    /\ \E name \in names, c \in contents :
          /\ uploaded # <<[name |-> name, content |-> c]>>
          /\ uploaded' = <<[name |-> name, content |-> c]>>
          /\ Execute(<<[name |-> name, content |-> c]>>, tariff_change)
    /\ UNCHANGED <<files, tariff_change>>

ClearUpload ==
    /\ UploaderShown
    /\ uploaded # <<>>
    /\ uploaded' = <<>>
    /\ Execute(<<>>, tariff_change)
    /\ UNCHANGED <<files, tariff_change>>

\* The candidate files change on disk without the script running.
WriteFileFrom(contents) ==
    /\ \E i \in CandidatePaths, c \in contents :
          /\ files[i] # <<c>>
          /\ files' = [files EXCEPT ![i] = <<c>>]
    /\ UNCHANGED <<uploaded, path_cache, bytes_cache, tariff_change, outcome, used,
                   parsed, seen, data_source, raw, missing, df, markers, headline, table>>

DeleteFile ==
    /\ \E i \in CandidatePaths :
          /\ files[i] # <<>>
          /\ files' = [files EXCEPT ![i] = <<>>]
    /\ UNCHANGED <<uploaded, path_cache, bytes_cache, tariff_change, outcome, used,
                   parsed, seen, data_source, raw, missing, df, markers, headline, table>>

----------------------------------------------------------------------------
(* The inputs the specifications draw.                                     *)

\* A CSV row laid out under the given header: the category text under the
\* (possibly unnamed) category column, the two numbers under their columns.
CellUnder(c, cat, corr, imp) ==
    CASE c = "Pre-Model Correlation" -> corr
      [] c = "Post-Model Importance (RF)" -> imp
      [] c = "Region" -> TextCell("West")
      [] OTHER -> cat

RowUnder(columns, cat, corr, imp) ==
    [k \in 1 .. Len(columns) |-> CellUnder(columns[k], cat, corr, imp)]

SessionRows(columns) ==
    << RowUnder(columns, TextCell("Food"), NumCell(8, 100), NumCell(21, 100)),
       RowUnder(columns, TextCell("Energy"), NumCell(-5, 100), NumCell(30, 100)),
       RowUnder(columns, TextCell("All Other Services Goods"), NumCell(1, 100),
                TextCell("n/a")) >>

ColumnLists ==
    { <<"Unnamed: 0", "Pre-Model Correlation", "Post-Model Importance (RF)", "Region">>,
      <<"", "Post-Model Importance (RF)", "Pre-Model Correlation">>,
      <<"Category", "Pre-Model Correlation">>,
      <<"Region", "Post-Model Importance (RF)">>,
      <<"Unnamed: 0", "Region">>,
      <<"Region">> }

\* Three CSV files: one that passes validation, one that lacks a required
\* column, and one with a header and no rows.
GoodCsv ==
    CsvBytes(<<"Unnamed: 0", "Pre-Model Correlation", "Post-Model Importance (RF)", "Region">>,
             SessionRows(<<"Unnamed: 0", "Pre-Model Correlation",
                           "Post-Model Importance (RF)", "Region">>))

LackingCsv ==
    CsvBytes(<<"Category", "Pre-Model Correlation">>,
             SessionRows(<<"Category", "Pre-Model Correlation">>))

HeaderOnlyCsv == CsvBytes(NeededCols, <<>>)

\* What the user uploads in Spec.
SessionContents == {EmptyBytes, GoodCsv, LackingCsv, HeaderOnlyCsv}

UploadNames == {"data.csv"}

\* What the candidate files hold, and what the user uploads, in SpecLoad.
FileContents == {EmptyBytes, GoodCsv, LackingCsv}
LoadUploads == {GoodCsv}

\* The tables the calculator is checked on: at most MaxRows rows whose two
\* numeric cells range over values on both sides of every comparison the
\* script makes (the 0.02 band, zero, negative sensitivities, unparseable text).
MaxRows == 2

CorrelationCells ==
    {NumCell(-3, 100), NumCell(1, 100), NumCell(2, 100), TextCell("n/a")}

ImportanceCells ==
    {NumCell(-2, 10), NumCell(1, 10), NumCell(3, 10), TextCell("n/a")}

CalcRows ==
    {<<TextCell("Food"), c, i>> : c \in CorrelationCells, i \in ImportanceCells}

CalcTables ==
    UNION {[1 .. n -> CalcRows] : n \in 0 .. MaxRows}

----------------------------------------------------------------------------
(* Specifications.                                                         *)

NoOutput ==
    /\ outcome = "none"
    /\ used = "none"
    /\ parsed = FALSE
    /\ seen = <<>>
    /\ data_source = <<>>
    /\ raw = <<>>
    /\ missing = <<>>
    /\ df = <<>>
    /\ markers = <<>>
    /\ headline = ""
    /\ table = <<>>

\* A fresh session: no candidate file, nothing uploaded, the slider at its default.
Init ==
    /\ files = [i \in CandidatePaths |-> <<>>]
    /\ uploaded = <<>>
    /\ tariff_change = Int2Rat(SliderDefault)
    /\ path_cache = [i \in CandidatePaths |-> <<>>]
    /\ bytes_cache = {}
    /\ NoOutput

Upload == UploadFrom(UploadNames, SessionContents)

\* A session in which the user uploads files and moves the slider.
Next == Rerun \/ MoveSlider \/ Upload \/ ClearUpload

Spec == Init /\ [][Next]_vars

UploadLoad == UploadFrom(UploadNames, LoadUploads)
WriteFile == WriteFileFrom(FileContents)

\* A session in which the candidate files come, change and go.
NextLoad == Rerun \/ WriteFile \/ DeleteFile \/ UploadLoad \/ ClearUpload

SpecLoad == Init /\ [][NextLoad]_vars

\* What the calculator is checked on: every drawn table under the required
\* header, and the session rows under every drawn header.
CalcContents ==
    {CsvBytes(NeededCols, rows) : rows \in CalcTables}
        \cup {CsvBytes(cl, SessionRows(cl)) : cl \in ColumnLists}

\* A session whose upload was read before (st.cache_data outlives a session)
\* and whose slider stands anywhere, about to execute the script.
InitCalc ==
    /\ files = [i \in CandidatePaths |-> <<>>]
    /\ \E c \in CalcContents :
          /\ uploaded = <<[name |-> "data.csv", content |-> c]>>
          /\ bytes_cache = {[key |-> c, value |-> ReadCsv(c)]}
    /\ tariff_change \in SliderValues
    /\ path_cache = [i \in CandidatePaths |-> <<>>]
    /\ NoOutput

NextCalc == Rerun

SpecCalc == InitCalc /\ [][NextCalc]_vars

----------------------------------------------------------------------------
(* Properties.  Each is stated on what the last execution displayed and,   *)
(* where it can, in integer arithmetic of its own rather than through the  *)
(* operators above.                                                        *)

Rendered == outcome = "rendered"

\* The rows of the loaded table as the calculator receives them.
LoadedRows == Coerced(raw[1])

Rows == 1 .. Len(df)

\* a = b * c * k for rationals a, b, c and an integer k, by cross-multiplication.
IsProduct(a, b, c, k) == a.n * b.d * c.d = b.n * c.n * k * a.d

\* The sign the specification gives a correlation: 0 inside the neutral band
\* |correlation| < 0.02 = 2/100, else -1, 0 or +1.
SpecSign(c) ==
    IF 100 * AbsInt(c.n) < 2 * c.d THEN 0
    ELSE IF c.n > 0 THEN 1 ELSE IF c.n < 0 THEN -1 ELSE 0

\* C1: for every row of the loaded table and every slider value,
\* estimatedChangePP = tariffChange * postModelImportance * sign, where sign is 0
\* when |preModelCorrelation| < 0.02 and the sign of preModelCorrelation
\* otherwise; a row inside the neutral band has estimatedChangePP = 0.
C1_EstimatedChange ==
    Rendered =>
        /\ Len(df) = Len(LoadedRows)
        /\ \A k \in Rows :
              /\ IsProduct(df[k].estimated, tariff_change, LoadedRows[k].importance,
                           SpecSign(LoadedRows[k].correlation))
              /\ 100 * AbsInt(LoadedRows[k].correlation.n)
                    < 2 * LoadedRows[k].correlation.d
                 => df[k].estimated.n = 0

\* A row inside the neutral band with a non-zero correlation, a non-zero
\* sensitivity and a non-zero tariff change, beside a row with a non-zero estimate.
C1_Witness ==
    /\ Rendered
    /\ tariff_change.n # 0
    /\ \E k \in Rows :
          /\ df[k].correlation.n # 0
          /\ SpecSign(df[k].correlation) = 0
          /\ df[k].importance.n # 0
          /\ df[k].estimated.n = 0
    /\ \E k \in Rows : df[k].estimated.n < 0

\* The largest postModelImportance of the table (tables with a row only).
MaxImportance ==
    CHOOSE m \in {df[k].importance : k \in Rows} :
        \A k \in Rows : ~RLt(m, df[k].importance)

InBubbleRange(b) == 40 * b.d <= b.n /\ b.n <= 160 * b.d
IsForty(b) == b.n = 40 * b.d

SpecBubble(e, m) ==
    IF 10 * m.n = 0 THEN Int2Rat(40)
    ELSE LET ratio == RDiv(RAbs(e), RMul(Int2Rat(10), m))
             clamped == IF ratio.n < 0 THEN Zero
                        ELSE IF ratio.n > ratio.d THEN One ELSE ratio
         IN  RAdd(Int2Rat(40), RMul(clamped, Int2Rat(120)))

\* C3: for every row, bubbleSize = 40 + clamp(|estimatedChangePP| / (10.0 * M),
\* 0, 1) * 120 with M the maximum postModelImportance of the table, and
\* bubbleSize is 40 for every row when 10.0 * M is zero.
C3_BubbleFormula ==
    Rendered =>
        \A k \in Rows : df[k].bubble_size = SpecBubble(df[k].estimated, MaxImportance)

\* A row strictly between the two ends of the scale, beside a row clamped at 160.
C3_Witness ==
    /\ Rendered
    /\ \E k \in Rows :
          40 * df[k].bubble_size.d < df[k].bubble_size.n
              /\ df[k].bubble_size.n < 160 * df[k].bubble_size.d
    /\ \E k \in Rows : df[k].bubble_size.n = 160 * df[k].bubble_size.d

\* The header of the bytes the last execution read, with an unnamed or
\* empty-named first column renamed to "Category".
SeenHeader ==
    [k \in 1 .. Len(seen[1].columns) |->
        IF k = 1 /\ seen[1].columns[1] \in {"Unnamed: 0", ""} THEN "Category"
        ELSE seen[1].columns[k]]

Lacking ==
    {c \in {"Category", "Pre-Model Correlation", "Post-Model Importance (RF)"} :
        \A k \in 1 .. Len(SeenHeader) : SeenHeader[k] # c}

NothingRendered == df = <<>> /\ markers = <<>> /\ headline = "" /\ table = <<>>

\* C4: when the loaded table, after the rename of an unnamed first column, lacks
\* any of the three required columns, the run shows an error that names exactly
\* the missing columns and halts: no impact rows, chart, headline or summary
\* table is produced.
C4_MissingColumnsHalt ==
    outcome \in {"halted", "rendered"} /\ used = "upload" =>
        /\ Lacking # {} =>
              /\ outcome = "halted"
              /\ {missing[k] : k \in 1 .. Len(missing)} = Lacking
              /\ Len(missing) = Cardinality(Lacking)
              /\ NothingRendered
        /\ outcome = "halted" => Lacking # {}

\* A table whose unnamed first column was renamed and that lacks the two others.
C4_Witness ==
    /\ outcome = "halted"
    /\ seen # <<>>
    /\ seen[1].columns[1] = "Unnamed: 0"
    /\ missing = <<"Pre-Model Correlation", "Post-Model Importance (RF)">>
    /\ NothingRendered

\* The sum of estimatedChangePP over the first k rows.
RECURSIVE SumOfEstimates(_)
SumOfEstimates(k) == IF k = 0 THEN Zero ELSE RAdd(SumOfEstimates(k - 1), df[k].estimated)

\* The mean of estimatedChangePP is defined (a table with a row) and positive,
\* negative or zero.
MeanPositive == Len(df) > 0 /\ SumOfEstimates(Len(df)).n > 0
MeanNegative == Len(df) > 0 /\ SumOfEstimates(Len(df)).n < 0
MeanZero == Len(df) > 0 /\ SumOfEstimates(Len(df)).n = 0

\* C7 as amended: the headline is "price pressure up" exactly when the mean of
\* estimatedChangePP is > 0, "price pressure down" exactly when it is < 0, and
\* "neutral" exactly when it is 0 or undefined (NaN: the table has no rows);
\* every run that reaches rendering emits exactly one of the three.
C7_Headline ==
    Rendered =>
        /\ headline \in {"price pressure up", "price pressure down", "neutral"}
        /\ headline = "price pressure up" <=> MeanPositive
        /\ headline = "price pressure down" <=> MeanNegative
        /\ headline = "neutral" <=> (MeanZero \/ Len(df) = 0)

\* C7 as claimed: "neutral" exactly when the mean is 0.
C7_AsClaimed ==
    Rendered =>
        /\ headline \in {"price pressure up", "price pressure down", "neutral"}
        /\ headline = "price pressure up" <=> MeanPositive
        /\ headline = "price pressure down" <=> MeanNegative
        /\ headline = "neutral" <=> MeanZero

\* Two rows whose non-zero estimates cancel: the mean is 0 and the headline neutral.
C7_Witness ==
    /\ Rendered
    /\ Len(df) = 2
    /\ df[1].estimated.n > 0
    /\ MeanZero
    /\ headline = "neutral"

\* C5 as claimed: missing required columns is the only fatal outcome: every run
\* either halts with the missing-columns error or completes rendering, and a run
\* with no candidate file and no upload renders the built-in demo table.
C5_AsClaimed ==
    outcome # "none" =>
        /\ (outcome = "halted" /\ missing # <<>>) \/ outcome = "rendered"
        /\ used = "demo" => outcome = "rendered" /\ raw = <<DemoTable>>

\* The source and the label the priority order gives the files and the upload.
ExpectedUsed(fs, up) ==
    IF fs[1] # <<>> THEN "path1"
    ELSE IF fs[2] # <<>> THEN "path2"
    ELSE IF fs[3] # <<>> THEN "path3"
    ELSE IF up # <<>> THEN "upload"
    ELSE "demo"

ExpectedLabel(fs, up) ==
    IF fs[1] # <<>> THEN <<"results/tariff_sensitivity_comparison.csv">>
    ELSE IF fs[2] # <<>> THEN <<"tariff_sensitivity_comparison.csv">>
    ELSE IF fs[3] # <<>> THEN <<"figures/tariff_sensitivity_comparison.csv">>
    ELSE IF up # <<>> THEN <<"uploaded CSV", up[1].name>>
    ELSE <<"built-in demo dataset">>

\* C6: every execution (a step that leaves the files alone) takes the first
\* existing candidate path in order, the upload only if none of the three exists,
\* the demo table only if there is no upload either, and the label it reports
\* names that source.
C6_SourcePriority ==
    [][files' = files =>
          /\ used' = ExpectedUsed(files, uploaded')
          /\ data_source' = ExpectedLabel(files, uploaded') \/ outcome' = "exception"
          /\ used' = "demo" => raw' = <<DemoTable>>]_vars

\* The third candidate path was used although an upload was at hand.
C6_Witness ==
    /\ outcome = "rendered"
    /\ used = "path3"
    /\ data_source = <<"figures/tariff_sensitivity_comparison.csv">>
    /\ uploaded # <<>>
    /\ files[1] = <<>> /\ files[2] = <<>> /\ files[3] # <<>>

\* C10 as claimed: the table a run uses is the parse of the content its source
\* holds at that run.
C10_AsClaimed ==
    outcome \in {"halted", "rendered"} /\ used # "demo" =>
        /\ ~ReadCsvRaises(seen[1])
        /\ raw = <<RenameFirst(ReadCsv(seen[1]))>>

\* The names the static lookup tables know.
KnownCategories ==
    {"Transportation", "Food", "Housing", "Apparel", "Medical",
     "All Other Services Goods"}

\* The category text of row k of the loaded table.
LoadedCategory(k) ==
    raw[1].rows[k][CHOOSE c \in 1 .. Len(raw[1].columns) :
                       raw[1].columns[c] = "Category"].s

\* C8: in every run that reaches rendering there is one marker per row of the
\* loaded table, carrying that row's category (none added, none dropped), and a
\* category absent from the lookup tables is drawn at (0, 0) with the generic
\* glyph and its own name.
C8_Markers ==
    Rendered =>
        /\ Len(markers) = Len(raw[1].rows)
        /\ \A k \in 1 .. Len(markers) :
              /\ markers[k].category = LoadedCategory(k)
              /\ LoadedCategory(k) \notin KnownCategories =>
                    /\ markers[k].x.n = 0
                    /\ markers[k].y.n = 0
                    /\ markers[k].emoji = "blue circle"
                    /\ markers[k].display_name = LoadedCategory(k)

\* A three-row upload with an unknown category and a row whose estimate is 0.
C8_Witness ==
    /\ Rendered
    /\ Len(markers) = 3
    /\ markers[2].category = "Energy"
    /\ markers[2].emoji = "blue circle"
    /\ markers[3].value.n = 0

\* C9: whatever slider values came before, what is displayed is what the
\* pipeline computes from the current slider value and the loaded table, and the
\* slider value lies in [-10.0, 10.0].
C9_Stateless ==
    /\ -10 * tariff_change.d <= tariff_change.n
    /\ tariff_change.n <= 10 * tariff_change.d
    /\ Rendered =>
          /\ df = ImpactFrame(raw[1], tariff_change)
          /\ markers = Markers(df)
          /\ headline = Headline(avg_effect(df))
          /\ table = SummaryTable(df)

\* The slider was moved to -10.0 after the upload was first rendered.
C9_Witness ==
    /\ Rendered
    /\ used = "upload"
    /\ ~parsed
    /\ tariff_change = Int2Rat(-10)
    /\ Len(df) = 3
    /\ headline = "price pressure up"

====
